---- MODULE Spec2Model ----
(***************************************************************************)
(* A model of SubtitleRenderer (src/SubtitleRenderer.cpp): the geometry    *)
(* derived by the constructor, the tag parser, the text layout on a cairo  *)
(* surface, the placement of a bitmap subtitle in a padded buffer, and     *)
(* the prepare / show_next / hide lifecycle with the resources it owns.    *)
(*                                                                         *)
(* Strings are sequences of one-character strings; positions are counted   *)
(* from 0 as in the source, so character pos of s is s[pos + 1].           *)
(***************************************************************************)
EXTENDS Integers, Sequences, FiniteSets, TLC

(***************************************************************************)
(* Bounds of the model.                                                    *)
(***************************************************************************)
\* Blocks that may be allocated and no longer referenced before the model
\* stops preparing further frames.
MaxLeaked == 1
\* Bitmap heights tried at the low end: 0 .. LowRows.
LowRows == 2
\* Bitmap heights tried around the highest row count that leaves the bottom
\* padding free: this many rows below it and above it.
TallRows == 1
\* Ordinals of the glyph preparation call that the text backend may fail.
MaxFail == 2
\* Pieces (tags, words, line breaks) of a generated subtitle text.
MaxPieces == 3
\* Hex digits that the digits of a generated colour tag are drawn from.
HexSamples == 4
\* Screen widths of the geometry specification: 201 .. 201 + ScreenSteps.
ScreenSteps == 16

(***************************************************************************)
(* Program constants.                                                      *)
(***************************************************************************)
assumed_longest_subtitle_line_in_pixels == 1300

NORMAL_FONT == "NORMAL_FONT"
BOLD_FONT == "BOLD_FONT"
ITALIC_FONT == "ITALIC_FONT"
\* m_current_font = -500: no font has been set
NO_FONT == "-500"

(***************************************************************************)
(* Small helpers.                                                          *)
(***************************************************************************)
Min(S) == CHOOSE x \in S : \A y \in S : x <= y

\* n zero bytes
Zeros(n) == [k \in 1..n |-> 0]

\* C integer division of non-negative operands
Div(a, b) == a \div b

(***************************************************************************)
(* The constructor: geometry derived from the screen size, the font size   *)
(* as a fraction num/den of the screen height, and the line count.         *)
(* r_font_size and the two scale factors are floating point numbers in the *)
(* source; here the quotients are computed exactly and then truncated as   *)
(* the conversion to int does.  For the configurations below the single    *)
(* precision computation yields the same integers.                         *)
(***************************************************************************)
\* Values the class declaration gives to members the constructor does not
\* set on every path.
HeaderDefaults ==
    [ m_prepared_from_image |-> FALSE,
      m_prepared_from_text  |-> FALSE,
      left_aligned_margin   |-> 0 ]

\* (m_image_height + 15) & ~15
GrowToFit(n) == Div(n + 15, 16) * 16

\* A rounding to the nearest multiple of 16.
ShrinkToFit_to_nearest(n) == Div(n + 8, 16) * 16

\* m_image_width & ~15
ShrinkToFit(n) == Div(n, 16) * 16

LeftAlignedMargin(screen_width, screen_height, left_margin) ==
    LET m0 == HeaderDefaults.left_aligned_margin
        m1 == IF screen_width > assumed_longest_subtitle_line_in_pixels
                THEN Div(screen_width - assumed_longest_subtitle_line_in_pixels, 2)
              ELSE IF screen_width > screen_height
                THEN Div(screen_width - screen_height, 2)
              ELSE m0
    IN  IF m1 > left_margin THEN m1 - left_margin ELSE m1

SubtitleRenderer(screen_width, screen_height, num, den, centered, box_opacity, lines) ==
    LET font_size    == Div(screen_height * num, den)
        padding      == Div(font_size, 4)
        line_height  == font_size + padding
        image_height == GrowToFit((lines * line_height) + 5)
        image_width  == ShrinkToFit(screen_width - 100)
        left_margin  == Div(screen_width - image_width, 2)
        top_margin   == screen_height - image_height - Div(line_height, 2)
        \* vscale = (screen_height * num / den) / 30 = vnum / vden ;
        \* hscale = vscale * 1.42 = (vnum * 71) / (vden * 50)
        vnum         == screen_height * num
        vden         == den * 30
    IN  [ m_centered            |-> centered,
          m_ghost_box           |-> box_opacity,
          m_max_lines           |-> lines,
          m_font_size           |-> font_size,
          m_padding             |-> padding,
          m_image_height        |-> image_height,
          m_image_width         |-> image_width,
          left_margin           |-> left_margin,
          top_margin            |-> top_margin,
          left_aligned_margin   |->
              LeftAlignedMargin(screen_width, screen_height, left_margin),
          m_scaled_image_width  |-> Div(image_width * vden * 50, vnum * 71),
          m_scaled_image_height |-> Div(image_height * vden, vnum),
          m_scaled_padding      |-> Div(padding * vden, vnum) ]

(***************************************************************************)
(* Characters and strings.                                                 *)
(***************************************************************************)
Digits == <<"0", "1", "2", "3", "4", "5", "6", "7", "8", "9">>
LowerCase == << "a", "b", "c", "d", "e", "f", "g", "h", "i", "j", "k", "l", "m",
                "n", "o", "p", "q", "r", "s", "t", "u", "v", "w", "x", "y", "z" >>
UpperCase == << "A", "B", "C", "D", "E", "F", "G", "H", "I", "J", "K", "L", "M",
                "N", "O", "P", "Q", "R", "S", "T", "U", "V", "W", "X", "Y", "Z" >>

Range(f) == {f[k] : k \in DOMAIN f}

IndexOf(seq, c) == CHOOSE k \in DOMAIN seq : seq[k] = c

\* The character code of a digit or of a lowercase letter.
Ord(c) == IF c \in Range(Digits) THEN 47 + IndexOf(Digits, c)
          ELSE 96 + IndexOf(LowerCase, c)

IsHexDigit(c) == c \in Range(Digits) \/ c \in {"a", "b", "c", "d", "e", "f"}

IsSpace(c) == c \in {" ", "\t", "\n", "\r", "\f"}

\* boost::algorithm::to_lower
to_lower(s) ==
    [k \in DOMAIN s |->
        IF s[k] \in Range(UpperCase) THEN LowerCase[IndexOf(UpperCase, s[k])]
        ELSE s[k]]

\* boost::algorithm::trim
trim(s) ==
    LET keep == {k \in DOMAIN s : ~IsSpace(s[k])}
    IN  IF keep = {} THEN << >>
        ELSE SubSeq(s, Min(keep), CHOOSE k \in keep : \A l \in keep : l <= k)

\* A substr whose count is signed: a negative count yields no character.
substr_signed_count(s, start, n) ==
    IF n < 0 THEN << >>
    ELSE IF start + n > Len(s) THEN SubSeq(s, start + 1, Len(s))
    ELSE SubSeq(s, start + 1, start + n)

\* std::string::substr(start, n): n is unsigned, so a negative count reaches
\* to the end of the string, as does a count that passes the end.
substr(s, start, n) ==
    IF n < 0 \/ start + n > Len(s) THEN SubSeq(s, start + 1, Len(s))
    ELSE SubSeq(s, start + 1, start + n)

\* s has the characters of lit at position pos
HasAt(s, pos, lit) ==
    /\ pos + Len(lit) <= Len(s)
    /\ \A k \in 1..Len(lit) : s[pos + k] = lit[k]

\* The position of the first character from pos on that is not in set
\* (Len(s) when there is none).
SkipSet(s, pos, set) ==
    Min({k \in pos..Len(s) : k = Len(s) \/ s[k + 1] \notin set})

(***************************************************************************)
(* The three regular expressions.  RegFind returns the position of the     *)
(* leftmost match at or after the start offset, or -1.                     *)
(***************************************************************************)
\* (<[^>]*>|\{\\[^\}]*\}) : the length of the match at position k, 0 if none
TagMatchLen(s, k) ==
    IF s[k + 1] = "<"
      THEN LET ends == {e \in (k + 1)..(Len(s) - 1) : s[e + 1] = ">"}
           IN  IF ends = {} THEN 0 ELSE Min(ends) - k + 1
    ELSE IF HasAt(s, k, <<"{", "\\">>)
      THEN LET ends == {e \in (k + 2)..(Len(s) - 1) : s[e + 1] = "}"}
           IN  IF ends = {} THEN 0 ELSE Min(ends) - k + 1
    ELSE 0

m_tags_RegFind(s, pos) ==
    LET found == {k \in pos..(Len(s) - 1) : TagMatchLen(s, k) > 0}
    IN  IF found = {} THEN [pos |-> -1, match |-> << >>]
        ELSE [pos |-> Min(found),
              match |-> SubSeq(s, Min(found) + 1,
                               Min(found) + TagMatchLen(s, Min(found)))]

\* color[ \t]*=[ \t"']*#?([a-f0-9]{6}) : the position of the six digits of
\* the match at position k, -1 if none
HtmlColorDigitsAt(s, k) ==
    IF ~HasAt(s, k, <<"c", "o", "l", "o", "r">>) THEN -1
    ELSE LET eq == SkipSet(s, k + 5, {" ", "\t"})
         IN  IF ~HasAt(s, eq, <<"=">>) THEN -1
             ELSE LET q == SkipSet(s, eq + 1, {" ", "\t", "\"", "'"})
                      d == IF HasAt(s, q, <<"#">>) THEN q + 1 ELSE q
                  IN  IF d + 6 <= Len(s) /\ \A k2 \in 1..6 : IsHexDigit(s[d + k2])
                        THEN d
                      ELSE -1

\* A search that accepts the colour attribute at the start offset only.
m_font_color_html_RegFind_anchored(s, pos) ==
    IF pos < Len(s) /\ HtmlColorDigitsAt(s, pos) >= 0
      THEN [pos |-> pos, match1 |-> substr(s, HtmlColorDigitsAt(s, pos), 6)]
    ELSE [pos |-> -1, match1 |-> << >>]

m_font_color_html_RegFind(s, pos) ==
    LET found == {k \in pos..(Len(s) - 1) : HtmlColorDigitsAt(s, k) >= 0}
    IN  IF found = {} THEN [pos |-> -1, match1 |-> << >>]
        ELSE [pos |-> Min(found),
              match1 |-> substr(s, HtmlColorDigitsAt(s, Min(found)), 6)]

\* A match whose first and third group are exchanged.
m_font_color_curly_RegFind_swapped(s) ==
    IF /\ Len(s) = 13
       /\ HasAt(s, 0, <<"{", "\\", "c", "&", "h">>)
       /\ \A k \in 6..11 : IsHexDigit(s[k])
       /\ HasAt(s, 11, <<"&", "}">>)
      THEN [pos |-> 0, match1 |-> substr(s, 9, 2), match2 |-> substr(s, 7, 2),
            match3 |-> substr(s, 5, 2)]
    ELSE [pos |-> -1, match1 |-> << >>, match2 |-> << >>, match3 |-> << >>]

\* ^\{\\c&h([a-f0-9]{2})([a-f0-9]{2})([a-f0-9]{2})&\}$
m_font_color_curly_RegFind(s) ==
    IF /\ Len(s) = 13
       /\ HasAt(s, 0, <<"{", "\\", "c", "&", "h">>)
       /\ \A k \in 6..11 : IsHexDigit(s[k])
       /\ HasAt(s, 11, <<"&", "}">>)
      THEN [pos |-> 0, match1 |-> substr(s, 5, 2), match2 |-> substr(s, 7, 2),
            match3 |-> substr(s, 9, 2)]
    ELSE [pos |-> -1, match1 |-> << >>, match2 |-> << >>, match3 |-> << >>]

(***************************************************************************)
(* hex2int: expects 6 lowercase hex digits.                                *)
(***************************************************************************)
\* v << f
ShiftLeft(v, f) == v * (2 ^ f)

RECURSIVE hex2intFrom(_, _, _)
hex2intFrom(hex, i, r) ==
    IF i >= 6 THEN r
    ELSE LET f == 20 - (4 * i)
             c == hex[i + 1]
         IN  IF Ord(c) >= Ord("a")
               THEN hex2intFrom(hex, i + 1, r + ShiftLeft(Ord(c) - 87, f))
             ELSE hex2intFrom(hex, i + 1, r + ShiftLeft(Ord(c) - 48, f))

hex2int(hex) == hex2intFrom(hex, 0, 0)

(***************************************************************************)
(* parse_lines: the tag parser.  The style state (bold, italic, color) is  *)
(* local to one call and runs through all its lines.                       *)
(***************************************************************************)
\* A parser that counts a closing tag as a switch: it clears the style when
\* set and sets it when clear.
ApplyTag_toggling(st, fullTag) ==
    IF fullTag = <<"<", "b", ">">> \/ fullTag = <<"{", "\\", "b", "1", "}">>
      THEN [st EXCEPT !.bold = TRUE]
    ELSE IF fullTag = <<"<", "/", "b", ">">> \/ fullTag = <<"{", "\\", "b", "0", "}">>
      THEN [st EXCEPT !.bold = ~st.bold]
    ELSE IF fullTag = <<"<", "i", ">">> \/ fullTag = <<"{", "\\", "i", "1", "}">>
      THEN [st EXCEPT !.italic = TRUE]
    ELSE IF fullTag = <<"<", "/", "i", ">">> \/ fullTag = <<"{", "\\", "i", "0", "}">>
      THEN [st EXCEPT !.italic = ~st.italic]
    ELSE IF (fullTag = <<"<", "/", "f", "o", "n", "t", ">">>
             \/ fullTag = <<"{", "\\", "c", "}">>)
            /\ st.color # -1
      THEN [st EXCEPT !.color = -1]
    ELSE IF substr(fullTag, 0, 5) = <<"<", "f", "o", "n", "t">>
      THEN IF m_font_color_html_RegFind(fullTag, 5).pos >= 0
             THEN [st EXCEPT !.color = hex2int(m_font_color_html_RegFind(fullTag, 5).match1)]
           ELSE st
    ELSE IF m_font_color_curly_RegFind(fullTag).pos >= 0
      THEN LET m == m_font_color_curly_RegFind(fullTag)
           IN  [st EXCEPT !.color = hex2int(m.match3 \o m.match2 \o m.match1)]
    ELSE st

\* The style state after the tag fullTag (already in lower case).
ApplyTag(st, fullTag) ==
    IF fullTag = <<"<", "b", ">">> \/ fullTag = <<"{", "\\", "b", "1", "}">>
      THEN [st EXCEPT !.bold = TRUE]
    ELSE IF (fullTag = <<"<", "/", "b", ">">> \/ fullTag = <<"{", "\\", "b", "0", "}">>)
            /\ st.bold
      THEN [st EXCEPT !.bold = FALSE]
    ELSE IF fullTag = <<"<", "i", ">">> \/ fullTag = <<"{", "\\", "i", "1", "}">>
      THEN [st EXCEPT !.italic = TRUE]
    ELSE IF (fullTag = <<"<", "/", "i", ">">> \/ fullTag = <<"{", "\\", "i", "0", "}">>)
            /\ st.italic
      THEN [st EXCEPT !.italic = FALSE]
    ELSE IF (fullTag = <<"<", "/", "f", "o", "n", "t", ">">>
             \/ fullTag = <<"{", "\\", "c", "}">>)
            /\ st.color # -1
      THEN [st EXCEPT !.color = -1]
    ELSE IF substr(fullTag, 0, 5) = <<"<", "f", "o", "n", "t">>
      THEN IF m_font_color_html_RegFind(fullTag, 5).pos >= 0
             THEN [st EXCEPT !.color = hex2int(m_font_color_html_RegFind(fullTag, 5).match1)]
           ELSE st
    ELSE IF m_font_color_curly_RegFind(fullTag).pos >= 0
      THEN LET m == m_font_color_curly_RegFind(fullTag)
           IN  [st EXCEPT !.color = hex2int(m.match3 \o m.match2 \o m.match1)]
    ELSE st

\* A choice of the font in which bold comes before italic.
RunFont_bold_first(st) ==
    IF st.bold THEN BOLD_FONT ELSE (IF st.italic THEN ITALIC_FONT ELSE NORMAL_FONT)

\* The font of a run parsed in style state st.
RunFont(st) ==
    IF st.italic THEN ITALIC_FONT ELSE (IF st.bold THEN BOLD_FONT ELSE NORMAL_FONT)

\* The while loop over one trimmed line: the runs of the line and the style
\* state after it.
RECURSIVE ScanLine(_, _, _, _, _)
ScanLine(line, pos, old_pos, st, runs) ==
    IF ~(pos < Len(line)) THEN [st |-> st, runs |-> runs]
    ELSE LET m == m_tags_RegFind(line, pos)
             runs1 == IF m.pos # old_pos
                        THEN Append(runs,
                                 [ text  |-> substr(line, old_pos, m.pos - old_pos),
                                   font  |-> RunFont(st),
                                   color |-> st.color ])
                      ELSE runs
         IN  IF m.pos < 0 THEN [st |-> st, runs |-> runs1]
             ELSE LET fullTag == to_lower(m.match)
                      pos2 == m.pos + Len(fullTag)
                  IN  ScanLine(line, pos2, pos2, ApplyTag(st, fullTag), runs1)

\* A loop over the lines that starts every line in the default style.
RECURSIVE ScanLines_reset_each_line(_, _, _, _)
ScanLines_reset_each_line(text_lines_, i, st, formatted) ==
    IF ~(i < Len(text_lines_)) THEN formatted
    ELSE LET r == ScanLine(trim(text_lines_[i + 1]), 0, 0,
                           [bold |-> FALSE, italic |-> FALSE, color |-> -1], << >>)
         IN  ScanLines_reset_each_line(text_lines_, i + 1, r.st,
                                       Append(formatted, r.runs))

\* The for loop over the lines: formatted_lines.
RECURSIVE ScanLines(_, _, _, _)
ScanLines(text_lines_, i, st, formatted) ==
    IF ~(i < Len(text_lines_)) THEN formatted
    ELSE LET r == ScanLine(trim(text_lines_[i + 1]), 0, 0, st, << >>)
         IN  ScanLines(text_lines_, i + 1, r.st, Append(formatted, r.runs))

formatted_lines(text_lines_) ==
    ScanLines(text_lines_, 0, [bold |-> FALSE, italic |-> FALSE, color |-> -1], << >>)


(***************************************************************************)
(* The state.                                                              *)
(***************************************************************************)
VARIABLES
    \* the screen size that the display reports to the constructor
    display,            \* [screen_width, screen_height]
    \* members set once by the constructor
    m_centered, m_ghost_box, m_max_lines, m_font_size, m_padding,
    m_image_width, m_image_height, left_aligned_margin,
    m_scaled_image_width, m_scaled_image_height, m_scaled_padding,
    \* the lifecycle flags and the frame they stand for
    m_prepared_from_text, m_prepared_from_image,
    other_image_data,   \* [addr, size, bytes]: the malloc'ed buffer and what was written
    m_surface,          \* [addr, ops]: the cairo surface and what was painted on it
    m_cr,               \* [addr, font, source, path]: the cairo context
    cairo_image_data,   \* address of the surface whose data it points to
    m_current_font, m_color,
    \* the two layers of the display
    subtitleLayer, dvdSubLayer,
    \* the heap: addresses of live malloc blocks and of live cairo surfaces
    \* (a surface and its context live and die together), the number of live
    \* glyph arrays, whether something was released that was not live, and
    \* the allocations and releases of the last method called, in order
    malloc_live, cairo_live, glyph_arrays, heap_error, heap_calls,
    \* the caller: the last method called, the subtitle it passed (by
    \* reference), the pieces that subtitle text was written from, the parsed
    \* lines handed to the layout, the calls the method made to the layers
    called, sub, script, parsed_lines, calls

ctor_vars == << display, m_centered, m_ghost_box, m_max_lines, m_font_size, m_padding,
                m_image_width, m_image_height, left_aligned_margin,
                m_scaled_image_width, m_scaled_image_height, m_scaled_padding >>

frame_vars == << m_prepared_from_text, m_prepared_from_image, other_image_data,
                 m_surface, m_cr, cairo_image_data, m_current_font, m_color >>

heap_vars == << malloc_live, cairo_live, glyph_arrays, heap_error, heap_calls >>

layer_vars == << subtitleLayer, dvdSubLayer >>

caller_vars == << called, sub, script, parsed_lines, calls >>

vars == << ctor_vars, frame_vars, heap_vars, layer_vars, caller_vars >>

\* The mutable members and the heap as one value at the start of a method,
\* for the operators below.
Self ==
    [ m_prepared_from_text  |-> m_prepared_from_text,
      m_prepared_from_image |-> m_prepared_from_image,
      other_image_data      |-> other_image_data,
      m_surface             |-> m_surface,
      m_cr                  |-> m_cr,
      cairo_image_data      |-> cairo_image_data,
      m_current_font        |-> m_current_font,
      m_color               |-> m_color,
      malloc_live           |-> malloc_live,
      cairo_live            |-> cairo_live,
      glyph_arrays          |-> glyph_arrays,
      heap_error            |-> heap_error,
      heap_calls            |-> << >> ]

\* The address a new block gets: the lowest one that is not live.
NewAddr(live) == Min((1..(Cardinality(live) + 1)) \ live)

\* Live blocks that no prepared frame stands for.
Leaked(o) ==
    (o.malloc_live \ (IF o.m_prepared_from_image THEN {o.other_image_data.addr} ELSE {}))
    \cup
    (o.cairo_live \ (IF o.m_prepared_from_text THEN {o.m_surface.addr} ELSE {}))

(***************************************************************************)
(* unprepare                                                               *)
(***************************************************************************)
\* An unprepare that clears the flag of a bitmap frame and keeps its buffer.
FreeImage_keeps_buffer(o) == o

\* free(other_image_data)
FreeImage(o) ==
    [o EXCEPT !.malloc_live = @ \ {o.other_image_data.addr},
              !.heap_calls = Append(@, [call |-> "free", addr |-> o.other_image_data.addr]),
              !.heap_error = @ \/ o.other_image_data.addr \notin o.malloc_live,
              !.other_image_data = [addr |-> @.addr, size |-> 0, bytes |-> << >>]]

\* cairo_destroy(m_cr); cairo_surface_destroy(m_surface)
DestroySurface(o) ==
    [o EXCEPT !.cairo_live = @ \ {o.m_surface.addr},
              !.heap_calls = Append(@, [call |-> "cairo_surface_destroy",
                                        addr |-> o.m_surface.addr]),
              !.heap_error = @ \/ o.m_surface.addr \notin o.cairo_live
                               \/ o.m_cr.addr # o.m_surface.addr,
              !.m_surface = [addr |-> @.addr, ops |-> << >>],
              !.m_cr = [addr |-> @.addr, font |-> "none", source |-> 0, path |-> << >>]]

\* An unprepare that releases a text frame only.
unprepare_text_only(o) ==
    IF o.m_prepared_from_text
      THEN [o EXCEPT !.cairo_live = @ \ {o.m_surface.addr},
                     !.heap_calls = Append(@, [call |-> "cairo_surface_destroy",
                                               addr |-> o.m_surface.addr]),
                     !.m_prepared_from_text = FALSE]
    ELSE o

unprepare(o) ==
    LET o1 == IF o.m_prepared_from_image
                THEN [FreeImage(o) EXCEPT !.m_prepared_from_image = FALSE]
              ELSE o
    IN  IF o1.m_prepared_from_text
          THEN [DestroySurface(o1) EXCEPT !.m_prepared_from_text = FALSE]
        ELSE o1

(***************************************************************************)
(* make_subtitle_image(sub_width, sub_height, pixels): a bitmap subtitle   *)
(* is copied into a padded buffer of the scaled image size.                *)
(***************************************************************************)
\* memset(p, 0, num_pixels); p += num_pixels
mem_set(bytes, num_pixels) == bytes \o Zeros(num_pixels)

\* memcpy(p, pixel, len); p += len  (pixel = pixels.data() + offset)
mem_copy(bytes, pixels, offset, len) == bytes \o SubSeq(pixels, offset + 1, offset + len)

\* A row loop that leaves out the padding right of the row.
CopyRow_no_right_padding(j, sub_width, pixels, left_padding, right_padding) ==
    mem_copy(mem_set(<< >>, left_padding), pixels, j * sub_width, sub_width)

\* One pass of the loop over the source rows, for row j: what it writes.
CopyRow(j, sub_width, pixels, left_padding, right_padding) ==
    mem_set(mem_copy(mem_set(<< >>, left_padding), pixels, j * sub_width, sub_width),
            right_padding)

\* The loop over the source rows j = 0 .. sub_height - 1: every pass writes
\* its row behind what was written before (all passes write the same number
\* of bytes).
CopyRows(bytes, sub_width, sub_height, pixels, left_padding, right_padding) ==
    LET rows == [j \in 0..(sub_height - 1) |->
                    CopyRow(j, sub_width, pixels, left_padding, right_padding)]
        row_len == Len(rows[0])
    IN  bytes \o
        [k \in 1..(sub_height * row_len) |->
            rows[Div(k - 1, row_len)][((k - 1) % row_len) + 1]]

\* A first test that also turns away a bitmap as wide as the scaled image.
ExceedsDimensions_inclusive(sub_width, sub_height) ==
    \/ sub_width < 1
    \/ sub_width >= m_scaled_image_width
    \/ sub_height < 1
    \/ sub_height > m_scaled_image_height

\* The first test: subtitles which exceed the dimensions are ignored.
ExceedsDimensions(sub_width, sub_height) ==
    \/ sub_width < 1
    \/ sub_width > m_scaled_image_width
    \/ sub_height < 1
    \/ sub_height > m_scaled_image_height

\* A left padding of half the free width.
left_padding_half_free(sub_width) == Div(m_scaled_image_width - sub_width, 2)

left_padding_of(sub_width) == Div(m_scaled_image_width, 2) - Div(sub_width, 2)

right_padding_of(sub_width) ==
    m_scaled_image_width - sub_width - left_padding_of(sub_width)

bottom_padding_of == m_scaled_padding

top_padding_of(sub_height) == m_scaled_image_height - sub_height - bottom_padding_of

\* The second test, made after the buffer is allocated.
NegativePadding(sub_width, sub_height) ==
    \/ left_padding_of(sub_width) < 0
    \/ right_padding_of(sub_width) < 0
    \/ bottom_padding_of < 0
    \/ top_padding_of(sub_height) < 0

FillImage(sub_width, sub_height, pixels) ==
    mem_set(CopyRows(mem_set(<< >>, top_padding_of(sub_height) * m_scaled_image_width),
                     sub_width, sub_height, pixels,
                     left_padding_of(sub_width), right_padding_of(sub_width)),
            bottom_padding_of * m_scaled_image_width)

make_subtitle_image_bitmap(o, sub_width, sub_height, pixels) ==
    IF ExceedsDimensions(sub_width, sub_height) THEN o
    ELSE LET addr == NewAddr(o.malloc_live)
             o1 == [o EXCEPT !.malloc_live = @ \cup {addr},
                             !.heap_calls = Append(@, [call |-> "malloc", addr |-> addr]),
                             !.other_image_data =
                                 [ addr  |-> addr,
                                   size  |-> m_scaled_image_width * m_scaled_image_height,
                                   bytes |-> << >> ]]
         IN  IF NegativePadding(sub_width, sub_height) THEN o1
             ELSE [o1 EXCEPT !.other_image_data.bytes =
                                 FillImage(sub_width, sub_height, pixels),
                             !.m_prepared_from_image = TRUE]


(***************************************************************************)
(* make_subtitle_image(parsed_lines): the text layout.  The surface        *)
(* records what is painted on it: each fill and stroke with the source     *)
(* colour and the path it painted.                                         *)
(***************************************************************************)
set_font(o, new_font_type) ==
    IF new_font_type = o.m_current_font THEN o
    ELSE [o EXCEPT !.m_cr.font =
                       IF new_font_type \in {NORMAL_FONT, BOLD_FONT, ITALIC_FONT}
                         THEN new_font_type ELSE @,
                   !.m_current_font = new_font_type]

set_color(o, new_color) ==
    IF new_color = o.m_color THEN o
    ELSE [o EXCEPT !.m_cr.source = new_color, !.m_color = new_color]

\* The text backend: the advance of one glyph of a scaled font, and the
\* x_advance of the extents of a run.
GlyphAdvance(font) ==
    IF font = BOLD_FONT THEN Div(m_font_size, 2) + 1 ELSE Div(m_font_size, 2)

x_advance(font, text) == Len(text) * GlyphAdvance(font)

\* cairo_scaled_font_text_to_glyphs: one glyph per character, from (x, y) on.
text_to_glyphs(font, x, y, text) ==
    [h \in 1..Len(text) |->
        [index |-> text[h], x |-> x + ((h - 1) * GlyphAdvance(font)), y |-> y]]

\* cairo_fill / cairo_fill_preserve / cairo_stroke on the surface of o
Paint(o, op, keep_path) ==
    [o EXCEPT !.m_surface.ops =
                  Append(@, [op |-> op, source |-> o.m_cr.source, path |-> o.m_cr.path]),
              !.m_cr.path = IF keep_path THEN @ ELSE << >>]

\* The first loop over the runs of line i: glyph preparation and extents.
\* ncalls counts the glyph preparations made so far; the one with ordinal
\* fail reports a failure.
RECURSIVE PrepareGlyphs(_, _, _, _, _, _, _, _, _)
PrepareGlyphs(o, line, j, cursor_x_position, cursor_y_position, box_width, glyphs, ncalls, fail) ==
    IF ~(j < Len(line))
      THEN [ o |-> o, failed |-> FALSE, cursor_x_position |-> cursor_x_position,
             box_width |-> box_width, glyphs |-> glyphs, ncalls |-> ncalls ]
    ELSE LET o1 == set_font(o, line[j + 1].font)
         IN  IF ncalls + 1 = fail
               THEN [ o |-> o1, failed |-> TRUE, cursor_x_position |-> cursor_x_position,
                      box_width |-> box_width, glyphs |-> glyphs, ncalls |-> ncalls + 1 ]
             ELSE LET g == text_to_glyphs(o1.m_cr.font,
                                          cursor_x_position + m_padding,
                                          cursor_y_position - Div(m_padding, 4),
                                          line[j + 1].text)
                      adv == x_advance(o1.m_cr.font, line[j + 1].text)
                  IN  PrepareGlyphs([o1 EXCEPT !.glyph_arrays = @ + 1], line, j + 1,
                                    cursor_x_position + adv, cursor_y_position,
                                    box_width + adv, Append(glyphs, g),
                                    ncalls + 1, fail)

\* p->x += cursor_x_position for every glyph of every run of the line
ShiftGlyphs(glyphs, cursor_x_position) ==
    [j \in DOMAIN glyphs |->
        [h \in DOMAIN glyphs[j] |->
            [glyphs[j][h] EXCEPT !.x = @ + cursor_x_position]]]

\* The second loop over the runs of line i: font, colour, glyph path.
RECURSIVE DrawRuns(_, _, _, _, _)
DrawRuns(o, line, i, j, glyphs) ==
    IF ~(j < Len(line)) THEN o
    ELSE LET o1 == set_color(set_font(o, line[j + 1].font), line[j + 1].color)
             o2 == [o1 EXCEPT !.m_cr.path =
                                  Append(@, [ kind |-> "glyphs", line |-> i, part |-> j,
                                              font |-> o1.m_cr.font,
                                              glyphs |-> glyphs[j + 1] ]),
                              !.glyph_arrays = @ - 1]
         IN  DrawRuns(o2, line, i, j + 1, glyphs)

\* The loop over the lines, from the last rendered line up to line 0.
RECURSIVE LayoutLines(_, _, _, _, _, _)
LayoutLines(o, parsed, i, cursor_y_position, ncalls, fail) ==
    IF ~(i > -1) THEN [o |-> o, failed |-> FALSE]
    ELSE LET line == parsed[i + 1]
             m == PrepareGlyphs(o, line, 0, left_aligned_margin, cursor_y_position,
                                m_padding * 2, << >>, ncalls, fail)
         IN  IF m.failed THEN [o |-> m.o, failed |-> TRUE]
             ELSE LET cursor_x_position ==
                          IF m_centered
                            THEN Div(m_image_width, 2) - Div(m.box_width, 2)
                          ELSE left_aligned_margin
                      glyphs == IF m_centered
                                  THEN ShiftGlyphs(m.glyphs, cursor_x_position)
                                ELSE m.glyphs
                      o1 == IF m_ghost_box
                              THEN LET c == set_color(m.o, -2)
                                   IN  Paint([c EXCEPT !.m_cr.path =
                                                 Append(@, [ kind |-> "rectangle",
                                                     x |-> cursor_x_position,
                                                     y |-> cursor_y_position - m_font_size,
                                                     width |-> m.box_width,
                                                     height |-> m_font_size + m_padding ])],
                                             "fill", FALSE)
                            ELSE m.o
                      o2 == DrawRuns(o1, line, i, 0, glyphs)
                      o3 == Paint(o2, "fill", TRUE)
                      o4 == Paint(set_color(o3, 0), "stroke 2", FALSE)
                  IN  LayoutLines(o4, parsed, i - 1,
                                  cursor_y_position - (m_font_size + m_padding),
                                  m.ncalls, fail)

\* A line count without the limit.
no_of_lines_unlimited(parsed) == Len(parsed)

\* if(no_of_lines > m_max_lines) no_of_lines = m_max_lines
no_of_lines(parsed) == IF Len(parsed) > m_max_lines THEN m_max_lines ELSE Len(parsed)

\* A layout whose first cursor is the bottom edge of the image.
make_subtitle_image_text_from_bottom_edge(o, parsed, fail) ==
    LET addr == NewAddr(o.cairo_live)
        o1 == [o EXCEPT !.cairo_live = @ \cup {addr},
                        !.heap_calls = Append(@, [call |-> "cairo_image_surface_create",
                                                  addr |-> addr]),
                        !.m_surface = [addr |-> addr, ops |-> << >>],
                        !.m_cr = [addr |-> addr, font |-> "none", source |-> 0,
                                  path |-> << >>],
                        !.m_current_font = NO_FONT,
                        !.m_color = -500]
        r == LayoutLines(o1, parsed, no_of_lines(parsed) - 1,
                         m_image_height, 0, fail)
    IN  IF r.failed THEN r.o
        ELSE [r.o EXCEPT !.cairo_image_data = r.o.m_surface.addr,
                         !.m_prepared_from_text = TRUE]

make_subtitle_image_text(o, parsed, fail) ==
    LET addr == NewAddr(o.cairo_live)
        o1 == [o EXCEPT !.cairo_live = @ \cup {addr},
                        !.heap_calls = Append(@, [call |-> "cairo_image_surface_create",
                                                  addr |-> addr]),
                        !.m_surface = [addr |-> addr, ops |-> << >>],
                        !.m_cr = [addr |-> addr, font |-> "none", source |-> 0,
                                  path |-> << >>],
                        !.m_current_font = NO_FONT,
                        !.m_color = -500]
        r == LayoutLines(o1, parsed, no_of_lines(parsed) - 1,
                         m_image_height - m_padding, 0, fail)
    IN  IF r.failed THEN r.o
        ELSE [r.o EXCEPT !.cairo_image_data = r.o.m_surface.addr,
                         !.m_prepared_from_text = TRUE]

\* parse_lines: trims the caller's lines in place, parses them and lays the
\* parsed lines out.
trimmed(text_lines_) == [i \in DOMAIN text_lines_ |-> trim(text_lines_[i])]

parse_lines(o, text_lines_, fail) ==
    make_subtitle_image_text(o, formatted_lines(text_lines_), fail)


(***************************************************************************)
(* The display layers.                                                     *)
(***************************************************************************)
hideElement(layer) == [layer EXCEPT !.visible = FALSE]

setImageData(layer, data) == [layer EXCEPT !.visible = TRUE]

HideCall(name) == [layer |-> name, method |-> "hideElement", data |-> << >>]

ImageCall(name, data) == [layer |-> name, method |-> "setImageData", data |-> data]

(***************************************************************************)
(* The subtitles the caller passes.  A subtitle text is written from       *)
(* pieces: tags, words and line breaks.                                    *)
(***************************************************************************)
BREAK == <<"BREAK">>

B_open == <<"<", "b", ">">>
B_close == <<"<", "/", "b", ">">>
B_open_upper == <<"<", "B", ">">>
B1_curly == <<"{", "\\", "b", "1", "}">>
B0_curly == <<"{", "\\", "b", "0", "}">>
I_open == <<"<", "i", ">">>
I_close == <<"<", "/", "i", ">">>
I1_curly == <<"{", "\\", "i", "1", "}">>
I0_curly == <<"{", "\\", "i", "0", "}">>
Font_red == << "<", "f", "o", "n", "t", " ", "c", "o", "l", "o", "r", "=", "#",
               "f", "f", "0", "0", "0", "0", ">" >>
Font_close == <<"<", "/", "f", "o", "n", "t", ">">>
Font_green_quoted == << "<", "F", "o", "n", "t", " ", "c", "o", "l", "o", "r", " ", "=",
                        " ", "\"", "0", "0", "F", "F", "0", "0", "\"", ">" >>
Font_short == << "<", "f", "o", "n", "t", " ", "c", "o", "l", "o", "r", "=", "#",
                 "f", "f", "0", "0", ">" >>
Curly_blue == <<"{", "\\", "c", "&", "h", "f", "f", "0", "0", "0", "0", "&", "}">>
Curly_reset == <<"{", "\\", "c", "}">>
Tag_u == <<"<", "u", ">">>
Tag_an8 == <<"{", "\\", "a", "n", "8", "}">>
Tag_fontx == << "<", "f", "o", "n", "t", "x", " ", "c", "o", "l", "o", "r", "=", "#",
                "f", "f", "0", "0", "0", "0", ">" >>
Lt == <<"<">>
Gt == <<">">>
Brace == <<"{">>
Space == <<" ">>
Word_x == <<"x">>
Word_y == <<"y">>
Word_ab == <<"a", "b">>

RECURSIVE SplitLines(_, _, _)
SplitLines(pieces, k, lines) ==
    IF k > Len(pieces) THEN lines
    ELSE IF pieces[k] = BREAK THEN SplitLines(pieces, k + 1, Append(lines, << >>))
    ELSE SplitLines(pieces, k + 1,
                    [lines EXCEPT ![Len(lines)] = @ \o pieces[k]])

\* The lines of the text written from pieces (none for no pieces).
Lines(pieces) == IF pieces = << >> THEN << >> ELSE SplitLines(pieces, 1, << << >> >>)

TextSub(pieces) ==
    [ isImage |-> FALSE, width |-> 0, height |-> 0, image_data |-> << >>,
      text_lines |-> Lines(pieces) ]

\* The pixels of a bitmap: every pixel differs from the padding value 0 and
\* tells its place in the bitmap.
Pixels(width, height) == [k \in 1..(width * height) |-> 1 + ((k - 1) % 255)]

ImageSub(width, height) ==
    [ isImage |-> TRUE, width |-> width, height |-> height,
      image_data |-> Pixels(width, height), text_lines |-> << >> ]

NoSub == TextSub(<< >>)

BitmapWidths == 0..(m_scaled_image_width + 1)

BitmapHeights ==
    {h \in 0..(m_scaled_image_height + 1) :
        \/ h <= LowRows
        \/ /\ h >= m_scaled_image_height - m_scaled_padding - TallRows
           /\ h <= m_scaled_image_height - m_scaled_padding + TallRows
        \/ h >= m_scaled_image_height}

\* The texts of the lifecycle specification.
LifecycleScripts ==
    { << Word_x >>,
      << Word_x, BREAK, B_open, Word_y >> }

(***************************************************************************)
(* Construction.                                                           *)
(***************************************************************************)
\* Constructor arguments and the screen the display reports.
Config(screen_width, screen_height, num, den, centered, box_opacity, lines) ==
    [ screen_width |-> screen_width, screen_height |-> screen_height,
      num |-> num, den |-> den, centered |-> centered,
      box_opacity |-> box_opacity, lines |-> lines ]

\* Narrow screens with a large font: the scaled image is a few pixels wide.
Configs ==
    { Config(201, 1080, 1, 2, TRUE, TRUE, 1),
      Config(212, 1080, 1, 2, FALSE, FALSE, 1) }

Construct(cfg, pieces) ==
    LET g == SubtitleRenderer(cfg.screen_width, cfg.screen_height, cfg.num, cfg.den,
                              cfg.centered, cfg.box_opacity, cfg.lines)
    IN  /\ display = [ screen_width |-> cfg.screen_width,
                      screen_height |-> cfg.screen_height ]
        /\ m_centered = g.m_centered
        /\ m_ghost_box = g.m_ghost_box
        /\ m_max_lines = g.m_max_lines
        /\ m_font_size = g.m_font_size
        /\ m_padding = g.m_padding
        /\ m_image_width = g.m_image_width
        /\ m_image_height = g.m_image_height
        /\ left_aligned_margin = g.left_aligned_margin
        /\ m_scaled_image_width = g.m_scaled_image_width
        /\ m_scaled_image_height = g.m_scaled_image_height
        /\ m_scaled_padding = g.m_scaled_padding
        /\ m_prepared_from_text = HeaderDefaults.m_prepared_from_text
        /\ m_prepared_from_image = HeaderDefaults.m_prepared_from_image
        \* the pointers and the font and colour caches are not set by the
        \* constructor; nothing reads them before a frame is made
        /\ other_image_data = [addr |-> 0, size |-> 0, bytes |-> << >>]
        /\ m_surface = [addr |-> 0, ops |-> << >>]
        /\ m_cr = [addr |-> 0, font |-> "none", source |-> 0, path |-> << >>]
        /\ cairo_image_data = 0
        /\ m_current_font = NO_FONT
        /\ m_color = -500
        /\ subtitleLayer = [visible |-> FALSE]
        /\ dvdSubLayer = [visible |-> FALSE]
        /\ malloc_live = {}
        /\ cairo_live = {}
        /\ glyph_arrays = 0
        /\ heap_error = FALSE
        /\ heap_calls = << >>
        /\ called = "SubtitleRenderer"
        /\ sub = TextSub(pieces)
        /\ script = pieces
        /\ parsed_lines = << >>
        /\ calls = << >>

Init == \E cfg \in Configs : Construct(cfg, << >>)

(***************************************************************************)
(* The public methods.                                                     *)
(***************************************************************************)
\* The members and the heap take the values of o.
Becomes(o) ==
    /\ m_prepared_from_text' = o.m_prepared_from_text
    /\ m_prepared_from_image' = o.m_prepared_from_image
    /\ other_image_data' = o.other_image_data
    /\ m_surface' = o.m_surface
    /\ m_cr' = o.m_cr
    /\ cairo_image_data' = o.cairo_image_data
    /\ m_current_font' = o.m_current_font
    /\ m_color' = o.m_color
    /\ malloc_live' = o.malloc_live
    /\ cairo_live' = o.cairo_live
    /\ glyph_arrays' = o.glyph_arrays
    /\ heap_error' = o.heap_error
    /\ heap_calls' = o.heap_calls

\* No further frame is prepared once MaxLeaked blocks are lost.
LeakRoom == Cardinality(Leaked(Self)) < MaxLeaked

\* prepare(Subtitle &sub)
prepare(s, pieces, fail) ==
    /\ LeakRoom
    /\ Becomes(IF s.isImage
                 THEN make_subtitle_image_bitmap(unprepare(Self), s.width, s.height,
                                                 s.image_data)
               ELSE parse_lines(unprepare(Self), s.text_lines, fail))
    /\ called' = "prepare"
    /\ sub' = IF s.isImage THEN s ELSE [s EXCEPT !.text_lines = trimmed(@)]
    /\ script' = pieces
    /\ parsed_lines' = IF s.isImage THEN << >> ELSE formatted_lines(s.text_lines)
    /\ calls' = << >>
    /\ UNCHANGED << ctor_vars, layer_vars >>

\* prepare(vector<string> &lines)
prepare_lines(lines, pieces, fail) ==
    /\ LeakRoom
    /\ Becomes(parse_lines(unprepare(Self), lines, fail))
    /\ called' = "prepare"
    /\ sub' = [TextSub(pieces) EXCEPT !.text_lines = trimmed(lines)]
    /\ script' = pieces
    /\ parsed_lines' = formatted_lines(lines)
    /\ calls' = << >>
    /\ UNCHANGED << ctor_vars, layer_vars >>

\* A show_next that leaves the other layer as it is.
show_next_other_layer_kept ==
    /\ IF m_prepared_from_image
         THEN /\ subtitleLayer' = subtitleLayer
              /\ dvdSubLayer' = setImageData(dvdSubLayer, other_image_data)
              /\ calls' = << ImageCall("dvdSubLayer", other_image_data.bytes) >>
              /\ Becomes(unprepare(Self))
       ELSE IF m_prepared_from_text
         THEN /\ dvdSubLayer' = dvdSubLayer
              /\ subtitleLayer' = setImageData(subtitleLayer, cairo_image_data)
              /\ calls' = << ImageCall("subtitleLayer",
                                       IF cairo_image_data = m_surface.addr
                                         THEN m_surface.ops ELSE << >>) >>
              /\ Becomes(unprepare(Self))
       ELSE /\ calls' = << >>
            /\ Becomes(Self)
            /\ UNCHANGED layer_vars
    /\ called' = "show_next"
    /\ UNCHANGED << ctor_vars, sub, script, parsed_lines >>

show_next ==
    /\ IF m_prepared_from_image
         THEN /\ subtitleLayer' = hideElement(subtitleLayer)
              /\ dvdSubLayer' = setImageData(dvdSubLayer, other_image_data)
              /\ calls' = << HideCall("subtitleLayer"),
                             ImageCall("dvdSubLayer", other_image_data.bytes) >>
              /\ Becomes(unprepare(Self))
       ELSE IF m_prepared_from_text
         THEN /\ dvdSubLayer' = hideElement(dvdSubLayer)
              /\ subtitleLayer' = setImageData(subtitleLayer, cairo_image_data)
              /\ calls' = << HideCall("dvdSubLayer"),
                             ImageCall("subtitleLayer",
                                       IF cairo_image_data = m_surface.addr
                                         THEN m_surface.ops ELSE << >>) >>
              /\ Becomes(unprepare(Self))
       ELSE /\ calls' = << >>
            /\ Becomes(Self)
            /\ UNCHANGED layer_vars
    /\ called' = "show_next"
    /\ UNCHANGED << ctor_vars, sub, script, parsed_lines >>

hide ==
    /\ subtitleLayer' = hideElement(subtitleLayer)
    /\ dvdSubLayer' = hideElement(dvdSubLayer)
    /\ calls' = << HideCall("subtitleLayer"), HideCall("dvdSubLayer") >>
    /\ called' = "hide"
    /\ Becomes(Self)
    /\ UNCHANGED << ctor_vars, sub, script, parsed_lines >>

(***************************************************************************)
(* The lifecycle specification: any sequence of calls, with bitmaps around *)
(* the limits of the scaled image and a few texts.                         *)
(***************************************************************************)
PrepareBitmap ==
    \E w \in BitmapWidths, h \in BitmapHeights : prepare(ImageSub(w, h), << >>, 0)

PrepareText ==
    \E pieces \in LifecycleScripts, fail \in 0..MaxFail :
        prepare(TextSub(pieces), pieces, fail)

PrepareLines ==
    \E pieces \in LifecycleScripts, fail \in 0..MaxFail :
        prepare_lines(Lines(pieces), pieces, fail)

ShowNext == show_next

Hide == hide

Next == PrepareBitmap \/ PrepareText \/ PrepareLines \/ ShowNext \/ Hide

Spec == Init /\ [][Next]_vars


(***************************************************************************)
(* The layout specification: real screen sizes, where the constructor      *)
(* derives a left_aligned_margin other than 0; the caller holds one text   *)
(* and prepares, shows and hides it.                                       *)
(***************************************************************************)
TextConfigs ==
    { Config(1920, 1080, 11, 200, TRUE, FALSE, 3),
      Config(1280, 720, 11, 200, TRUE, TRUE, 2),
      Config(720, 576, 11, 200, FALSE, TRUE, 2) }

LayoutScripts ==
    LifecycleScripts \cup
    { << Font_red, Word_x, Font_close, Word_y >>,
      << Word_ab, I_open, Word_x >>,
      << B_open >>,
      << Word_x, BREAK, Word_y, BREAK, Word_ab, BREAK, Word_x >> }

InitText == \E cfg \in TextConfigs, pieces \in LayoutScripts : Construct(cfg, pieces)

PrepareHeld ==
    /\ ~sub.isImage
    /\ \E fail \in 0..MaxFail : prepare_lines(sub.text_lines, script, fail)

NextText == PrepareHeld \/ ShowNext \/ Hide

SpecText == InitText /\ [][NextText]_vars

(***************************************************************************)
(* The parser specification: the caller holds a text written from up to    *)
(* MaxPieces style tags, words and line breaks (or one of the examples)    *)
(* and prepares and shows it.                                              *)
(***************************************************************************)
StyleVocabulary ==
    { B_open, B_close, B_open_upper, B1_curly, B0_curly,
      I_open, I_close, I1_curly, I0_curly, Word_x, BREAK }

ExampleScripts ==
    { << B_close, B_open, Word_x, B_close, B_close, Word_y >>,
      << I_close, I_open, Word_x, I_close, I_close, Word_y >>,
      << B1_curly, I1_curly, Word_x, I0_curly, Word_y, B0_curly, Word_x >> }

ParseScripts ==
    ExampleScripts \cup
    UNION { [1..n -> StyleVocabulary] : n \in 0..MaxPieces }

InitParse ==
    \E pieces \in ParseScripts :
        Construct(Config(1920, 1080, 11, 200, TRUE, FALSE, 3), pieces)

PrepareSub ==
    /\ ~sub.isImage
    /\ prepare(sub, script, 0)

NextParse == PrepareSub \/ ShowNext

SpecParse == InitParse /\ [][NextParse]_vars

(***************************************************************************)
(* The colour specification: as the parser specification, with texts       *)
(* written from colour tags, tags that open a style, words and line breaks.*)
(***************************************************************************)
ColourVocabulary ==
    { B_open, I_open, Font_red, Font_short, Font_close, Curly_blue, Curly_reset,
      Word_x, BREAK }

ColourExamples ==
    { << Font_green_quoted, Word_x, BREAK, Word_y, Font_close, Font_close, Word_x >>,
      << Word_x, BREAK, B_open, Font_red, Word_y, BREAK, Word_x >>,
      << I_open, Curly_blue, Word_x, BREAK, Word_y, Curly_reset, Word_ab >> }

ColourScripts ==
    ColourExamples \cup
    UNION { [1..n -> ColourVocabulary] : n \in 0..MaxPieces }

InitColour ==
    \E pieces \in ColourScripts :
        Construct(Config(1920, 1080, 11, 200, TRUE, FALSE, 3), pieces)

NextColour == PrepareSub \/ ShowNext

SpecColour == InitColour /\ [][NextColour]_vars

(***************************************************************************)
(* The geometry specification: the constructor is given screens of         *)
(* 201 .. 201 + ScreenSteps by a few heights, a few font sizes and 1 to 4  *)
(* lines; nothing is prepared.                                             *)
(***************************************************************************)
GeometryConfigs ==
    { Config(201 + w, h, f[1], f[2], FALSE, FALSE, l) :
        w \in 0..ScreenSteps, h \in {201, 576, 720, 1080},
        f \in { <<11, 200>>, <<1, 16>>, <<1, 4>>, <<1, 2>> }, l \in 1..4 }

InitGeometry == \E cfg \in GeometryConfigs : Construct(cfg, << >>)

NextGeometry == ShowNext \/ Hide

SpecGeometry == InitGeometry /\ [][NextGeometry]_vars

(***************************************************************************)
(* The scanning specification: as the parser specification, with texts     *)
(* written from words, blanks, single brackets, tags that stand for no     *)
(* style, a bold tag and line breaks.                                      *)
(***************************************************************************)
ScanVocabulary ==
    { Word_x, Space, Lt, Gt, Brace, Tag_u, Tag_an8, Tag_fontx, B_open, BREAK }

ScanExamples ==
    { << Space, B_open, Word_x, Tag_u, Word_y, Lt, Space >>,
      << Font_red, Word_x, Tag_an8, Word_y, Tag_fontx, Word_ab >>,
      << Tag_u, Tag_an8, BREAK, BREAK, Space, Space, BREAK, Word_x >> }

ScanScripts ==
    ScanExamples \cup
    UNION { [1..n -> ScanVocabulary] : n \in 0..MaxPieces }

InitScan ==
    \E pieces \in ScanScripts :
        Construct(Config(1920, 1080, 11, 200, TRUE, FALSE, 3), pieces)

NextScan == PrepareSub \/ ShowNext

SpecScan == InitScan /\ [][NextScan]_vars

(***************************************************************************)
(* The hex specification: the caller holds the text "{\c&hBBGGRR&}x" with  *)
(* the six digits drawn from HexSamples hex digits, and prepares and shows *)
(* it.                                                                     *)
(***************************************************************************)
\* The hex digits, from the ends of the two ranges 0-9 and a-f inwards.
SampleOrder == << "0", "f", "9", "a", "1", "e", "8", "b", "2", "d", "7", "c",
                 "3", "6", "4", "5" >>

SampleDigits == {SampleOrder[k] : k \in 1..Min({HexSamples, Len(SampleOrder)})}

SamplePairs == {<<d1, d2>> : d1 \in SampleDigits, d2 \in SampleDigits}

CurlyColour(bb, gg, rr) ==
    <<"{", "\\", "c", "&", "h">> \o bb \o gg \o rr \o <<"&", "}">>

HexScripts ==
    { << CurlyColour(bb, gg, rr), Word_x >> :
        bb \in SamplePairs, gg \in SamplePairs, rr \in SamplePairs }

InitHex ==
    \E pieces \in HexScripts :
        Construct(Config(1920, 1080, 11, 200, TRUE, FALSE, 3), pieces)

NextHex == PrepareSub \/ ShowNext

SpecHex == InitHex /\ [][NextHex]_vars


(***************************************************************************)
(* Properties.                                                             *)
(***************************************************************************)
Max(S) == CHOOSE x \in S : \A y \in S : y <= x

RECURSIVE Flatten(_)
Flatten(ss) == IF ss = << >> THEN << >> ELSE Head(ss) \o Flatten(Tail(ss))

\* The addresses of the blocks the prepared frame, if any, stands for.
HeldImage == IF m_prepared_from_image THEN {other_image_data.addr} ELSE {}
HeldSurface == IF m_prepared_from_text THEN {m_surface.addr} ELSE {}

\* The calls of the last method that allocate.
Allocations ==
    {k \in DOMAIN heap_calls :
        heap_calls[k].call \in {"malloc", "cairo_image_surface_create"}}

\* C1: after any sequence of prepare, show_next and hide calls the two
\* prepared flags are never both set and a set flag stands for a live block;
\* every prepare begins with unprepare: the first thing it does to the heap
\* is to release the frame that was prepared, and it allocates only after
\* that.
C1_OneFrameReleasedFirst ==
    /\ [](/\ ~(m_prepared_from_text /\ m_prepared_from_image)
          /\ HeldImage \subseteq malloc_live
          /\ HeldSurface \subseteq cairo_live)
    /\ [][called' = "prepare" =>
            /\ m_prepared_from_image =>
                 /\ heap_calls' # << >>
                 /\ heap_calls'[1] = [call |-> "free", addr |-> other_image_data.addr]
            /\ m_prepared_from_text =>
                 /\ heap_calls' # << >>
                 /\ heap_calls'[1] = [call |-> "cairo_surface_destroy",
                                      addr |-> m_surface.addr]
            /\ (~m_prepared_from_image /\ ~m_prepared_from_text) =>
                 \A k \in DOMAIN heap_calls' :
                     heap_calls'[k].call \in {"malloc", "cairo_image_surface_create"}
            /\ ~heap_error']_vars

\* C1 witness: a bitmap frame has been prepared by a call that first released
\* the text frame prepared before.
C1_Witness ==
    /\ called = "prepare"
    /\ m_prepared_from_image
    /\ ~m_prepared_from_text
    /\ Len(heap_calls) = 2
    /\ heap_calls[1].call = "cairo_surface_destroy"
    /\ heap_calls[2].call = "malloc"
    /\ cairo_live = {}

\* C2: at every point the blocks allocated and not released are exactly those
\* of the prepared frame: none when no frame is prepared, otherwise the one
\* buffer or the one surface; no glyph array outlives a call and nothing is
\* released twice.
C2_OnlyTheFrameIsAllocated ==
    /\ malloc_live = HeldImage
    /\ cairo_live = HeldSurface
    /\ glyph_arrays = 0
    /\ ~heap_error

\* C3: when a prepare rejects a bitmap, for whichever reason, it has
\* allocated no buffer and no frame is prepared (so that the next show_next
\* delivers nothing).
C3_RejectedBitmapAllocatesNothing ==
    (called = "prepare" /\ sub.isImage /\ ~m_prepared_from_image) =>
        /\ Allocations = {}
        /\ ~m_prepared_from_text

\* C4: show_next with a prepared bitmap hides the text layer, hands the
\* buffer to the bitmap layer and releases the frame; with a prepared text it
\* hides the bitmap layer, hands the surface data to the text layer and
\* releases the frame; with nothing prepared (as right after a show_next) it
\* calls neither layer.  So a frame is delivered at most once.
C4_ShowDeliversOnce ==
    [][called' = "show_next" =>
            /\ ~m_prepared_from_image' /\ ~m_prepared_from_text'
            /\ malloc_live' = malloc_live \ HeldImage
            /\ cairo_live' = cairo_live \ HeldSurface
            /\ ~heap_error'
            /\ m_prepared_from_image =>
                 /\ calls' = << [layer |-> "subtitleLayer", method |-> "hideElement",
                                 data |-> << >>],
                                [layer |-> "dvdSubLayer", method |-> "setImageData",
                                 data |-> other_image_data.bytes] >>
                 /\ ~subtitleLayer'.visible /\ dvdSubLayer'.visible
            /\ (m_prepared_from_text /\ ~m_prepared_from_image) =>
                 /\ calls' = << [layer |-> "dvdSubLayer", method |-> "hideElement",
                                 data |-> << >>],
                                [layer |-> "subtitleLayer", method |-> "setImageData",
                                 data |-> m_surface.ops] >>
                 /\ ~dvdSubLayer'.visible /\ subtitleLayer'.visible
            /\ (~m_prepared_from_text /\ ~m_prepared_from_image) =>
                 /\ calls' = << >>
                 /\ UNCHANGED layer_vars
            /\ called = "show_next" => calls' = << >>]_vars

\* C4 witness: a show_next has just handed a filled bitmap buffer to the
\* bitmap layer and released it.
C4_Witness ==
    /\ called = "show_next"
    /\ Len(calls) = 2
    /\ calls[2].layer = "dvdSubLayer"
    /\ calls[2].method = "setImageData"
    /\ Len(calls[2].data) = m_scaled_image_width * m_scaled_image_height
    /\ ~m_prepared_from_image
    /\ malloc_live = {}
    /\ heap_calls = << [call |-> "free", addr |-> other_image_data.addr] >>

\* The glyph runs in the path of paint k of the prepared surface.
GlyphRuns(k) ==
    {e \in DOMAIN m_surface.ops[k].path : m_surface.ops[k].path[e].kind = "glyphs"}

\* The lines that are laid out, and the runs of line i.
RenderedLines == 0..(no_of_lines(parsed_lines) - 1)
RunsOf(i) == 0..(Len(parsed_lines[i + 1]) - 1)

\* C5: in a prepared text frame every run of every rendered line is painted
\* by a fill whose source is the colour the run was parsed with, and the
\* stroke of a line, in black, directly follows the fill of the same path.
C5_RunsFilledInOwnColour ==
    m_prepared_from_text =>
        /\ \A k \in DOMAIN m_surface.ops :
              m_surface.ops[k].op = "fill" =>
                 \A e \in GlyphRuns(k) :
                     m_surface.ops[k].source =
                         parsed_lines[m_surface.ops[k].path[e].line + 1]
                                     [m_surface.ops[k].path[e].part + 1].color
        /\ \A i \in RenderedLines : \A j \in RunsOf(i) :
              \E k \in DOMAIN m_surface.ops :
                 /\ m_surface.ops[k].op = "fill"
                 /\ \E e \in GlyphRuns(k) :
                       /\ m_surface.ops[k].path[e].line = i
                       /\ m_surface.ops[k].path[e].part = j
        /\ \A k \in DOMAIN m_surface.ops :
              m_surface.ops[k].op = "stroke 2" =>
                 /\ k > 1
                 /\ m_surface.ops[k - 1].op = "fill"
                 /\ m_surface.ops[k - 1].path = m_surface.ops[k].path
                 /\ m_surface.ops[k].source = 0

\* The advance of run j of line i, and the sum of the advances of the first n
\* runs of line i.
AdvanceOf(i, j) ==
    x_advance(parsed_lines[i + 1][j + 1].font, parsed_lines[i + 1][j + 1].text)

RECURSIVE AdvancesBefore(_, _)
AdvancesBefore(i, n) ==
    IF n = 0 THEN 0 ELSE AdvancesBefore(i, n - 1) + AdvanceOf(i, n - 1)

BoxWidthOf(i) == (2 * m_padding) + AdvancesBefore(i, Len(parsed_lines[i + 1]))

\* C6: in a prepared text frame, when centered is set the first glyph of run
\* j of line i is at (image_width/2 - box_width/2) + padding + the advances of
\* the runs before it, whatever left_aligned_margin is; when centered is not
\* set the first run of a line starts at left_aligned_margin + padding.
C6_CenteredOnImageMiddle ==
    m_prepared_from_text =>
        \A k \in DOMAIN m_surface.ops : \A e \in GlyphRuns(k) :
            LET run == m_surface.ops[k].path[e]
            IN  /\ m_centered =>
                     run.glyphs[1].x =
                         (Div(m_image_width, 2) - Div(BoxWidthOf(run.line), 2))
                         + m_padding + AdvancesBefore(run.line, run.part)
                /\ (~m_centered /\ run.part = 0) =>
                     run.glyphs[1].x = left_aligned_margin + m_padding

\* The zero bytes before the first pixel and behind the last pixel in their
\* rows of the buffer (every pixel of a bitmap of the model is non-zero).
PixelPlaces == {k \in DOMAIN other_image_data.bytes : other_image_data.bytes[k] # 0}
ObservedLeft == (Min(PixelPlaces) - 1) % m_scaled_image_width
ObservedRight ==
    m_scaled_image_width - 1 - ((Max(PixelPlaces) - 1) % m_scaled_image_width)

\* The paddings as the claims state them.
StatedLeft == Div(m_scaled_image_width, 2) - Div(sub.width, 2)
StatedRight == m_scaled_image_width - sub.width - StatedLeft
StatedTop == m_scaled_image_height - sub.height - m_scaled_padding

\* C7 as stated: for every accepted bitmap the buffer has
\* scaled_width/2 - sub_width/2 zero bytes left of each row and
\* scaled_width - sub_width - left_padding right of it, and
\* left_padding <= right_padding <= left_padding + 1.
C7_RemainderGoesRight ==
    m_prepared_from_image =>
        /\ ObservedLeft = StatedLeft
        /\ ObservedRight = StatedRight
        /\ ObservedLeft <= ObservedRight
        /\ ObservedRight <= ObservedLeft + 1

\* C7 as amended: the paddings are as stated and differ by at most one, with
\* right_padding - left_padding = scaled_width % 2 - sub_width % 2: the
\* remaining pixel of an odd free width goes to the right when scaled_width
\* is odd and to the left when sub_width is odd.
C7_RemainderByParity ==
    m_prepared_from_image =>
        /\ ObservedLeft = StatedLeft
        /\ ObservedRight = StatedRight
        /\ ObservedLeft - 1 <= ObservedRight
        /\ ObservedRight <= ObservedLeft + 1
        /\ ObservedRight - ObservedLeft =
               (m_scaled_image_width % 2) - (sub.width % 2)

\* C7 witness: an accepted bitmap with an odd free width whose remaining
\* pixel is on the left.
C7_Witness ==
    /\ m_prepared_from_image
    /\ (m_scaled_image_width - sub.width) % 2 = 1
    /\ ObservedRight = ObservedLeft - 1

\* C8: a prepare of a bitmap builds the padded buffer and leaves the bitmap
\* prepared exactly when 1 <= sub_width <= scaled_width,
\* 1 <= sub_height <= scaled_height and no padding is negative; with a
\* height that fits, sub_width = scaled_width is accepted and
\* sub_width = scaled_width + 1 is rejected.
C8_AcceptedExactlyWhenItFits ==
    (called = "prepare" /\ sub.isImage) =>
        /\ m_prepared_from_image <=>
              /\ 1 <= sub.width /\ sub.width <= m_scaled_image_width
              /\ 1 <= sub.height /\ sub.height <= m_scaled_image_height
              /\ StatedLeft >= 0 /\ StatedRight >= 0
              /\ m_scaled_padding >= 0 /\ StatedTop >= 0
        /\ m_prepared_from_image =>
              Len(other_image_data.bytes) = m_scaled_image_width * m_scaled_image_height
        /\ (1 <= sub.height /\ sub.height <= m_scaled_image_height - m_scaled_padding) =>
              /\ sub.width = m_scaled_image_width => m_prepared_from_image
              /\ sub.width = m_scaled_image_width + 1 => ~m_prepared_from_image
        /\ ~m_prepared_from_text

\* C8 witness: a bitmap as wide as the scaled image has been accepted.
C8_Witness ==
    /\ called = "prepare"
    /\ sub.isImage
    /\ sub.width = m_scaled_image_width
    /\ m_prepared_from_image

\* C9: the buffer of an accepted bitmap has been written up to its end and
\* not beyond, and holds the padded image: source row j in buffer row
\* top_padding + j from column left_padding on, zero everywhere else.
C9_BufferHoldsPaddedImage ==
    m_prepared_from_image =>
        /\ other_image_data.size = m_scaled_image_width * m_scaled_image_height
        /\ Len(other_image_data.bytes) = other_image_data.size
        /\ StatedLeft + sub.width + StatedRight = m_scaled_image_width
        /\ StatedTop + sub.height + m_scaled_padding = m_scaled_image_height
        /\ \A r \in 0..(m_scaled_image_height - 1) :
              \A c \in 0..(m_scaled_image_width - 1) :
                 other_image_data.bytes[(r * m_scaled_image_width) + c + 1] =
                     IF /\ r >= StatedTop /\ r < StatedTop + sub.height
                        /\ c >= StatedLeft /\ c < StatedLeft + sub.width
                       THEN sub.image_data[((r - StatedTop) * sub.width)
                                           + (c - StatedLeft) + 1]
                     ELSE 0

\* C9 witness: an accepted bitmap of two or more rows with padding on both
\* sides.
C9_Witness ==
    /\ m_prepared_from_image
    /\ sub.height >= 2
    /\ StatedLeft >= 1
    /\ StatedRight >= 1
    /\ Len(other_image_data.bytes) = m_scaled_image_width * m_scaled_image_height

\* The pieces that are words, and the tags that open and close a style.
Words == {Word_x, Word_y, Word_ab}
BoldOpening == {B_open, B_open_upper, B1_curly}
BoldClosing == {B_close, B0_curly}
ItalicOpening == {I_open, I1_curly}
ItalicClosing == {I_close, I0_curly}

\* The most recent of the given tags before piece k is an opening one.
LastIsOpening(pieces, k, opening, closing) ==
    LET tags == {t \in 1..(k - 1) : pieces[t] \in opening \cup closing}
    IN  tags # {} /\ pieces[Max(tags)] \in opening

\* The characters of the words of a text with their line and the font that
\* the most recent bold and italic tags call for.
ExpectedChars(pieces) ==
    Flatten([k \in DOMAIN pieces |->
        IF pieces[k] \notin Words THEN << >>
        ELSE [h \in DOMAIN pieces[k] |->
                 [ line |-> Cardinality({t \in 1..(k - 1) : pieces[t] = BREAK}),
                   c    |-> pieces[k][h],
                   font |-> IF LastIsOpening(pieces, k, ItalicOpening, ItalicClosing)
                              THEN ITALIC_FONT
                            ELSE IF LastIsOpening(pieces, k, BoldOpening, BoldClosing)
                              THEN BOLD_FONT
                            ELSE NORMAL_FONT ]]])

\* The characters of the runs of the parsed lines with their line and font.
ParsedChars(parsed) ==
    Flatten([i \in DOMAIN parsed |->
        Flatten([j \in DOMAIN parsed[i] |->
            [h \in DOMAIN parsed[i][j].text |->
                [ line |-> i - 1,
                  c    |-> parsed[i][j].text[h],
                  font |-> parsed[i][j].font ]]])])

\* C10: every character of a parsed text is in a run of the italic face iff
\* the most recent italic tag before it, in the whole text, is an opening
\* one, and else of the bold face iff the most recent bold tag before it is
\* an opening one: closing tags in excess are ignored, no depth is counted.
C10_StyleFollowsLastTag ==
    (called = "prepare" /\ ~sub.isImage) =>
        ParsedChars(parsed_lines) = ExpectedChars(script)

\* C10 witness: "</b><b>x</b></b>y" has been parsed to x Bold, y Normal.
C10_Witness ==
    /\ called = "prepare"
    /\ script = << B_close, B_open, Word_x, B_close, B_close, Word_y >>
    /\ parsed_lines = << << [text |-> <<"x">>, font |-> BOLD_FONT, color |-> -1],
                            [text |-> <<"y">>, font |-> NORMAL_FONT, color |-> -1] >> >>

\* The 0-based number of the line that piece k of a text is on.
LineOf(pieces, k) == Cardinality({t \in 1..(k - 1) : pieces[t] = BREAK})

\* C11: within one prepare call a style that is in force at the end of a
\* line is in force at the start of the next line (where a line ends with a
\* word and the next line starts with one, the last run of the one and the
\* first run of the other have the same face and colour), and every prepare
\* call, also one that follows a call that ended in another style, starts in
\* the normal face and the default colour.
C11_StyleCarriesOverLines ==
    (called = "prepare" /\ ~sub.isImage) =>
        /\ \A k \in 2..(Len(script) - 1) :
              (script[k] = BREAK /\ script[k - 1] \in Words /\ script[k + 1] \in Words) =>
                 LET above == parsed_lines[LineOf(script, k) + 1]
                     below == parsed_lines[LineOf(script, k) + 2]
                 IN  /\ above # << >> /\ below # << >>
                     /\ below[1].font = above[Len(above)].font
                     /\ below[1].color = above[Len(above)].color
        /\ (script # << >> /\ script[1] \in Words) =>
              /\ parsed_lines[1][1].font = NORMAL_FONT
              /\ parsed_lines[1][1].color = -1

\* C11 witness: the second prepare of "x / <b><font color=#ff0000>y / x":
\* the call before ended in bold and red, this one starts with x Normal in
\* the default colour and carries bold and red over to the third line.
C11_Witness ==
    /\ called = "prepare"
    /\ Len(heap_calls) = 2
    /\ heap_calls[1].call = "cairo_surface_destroy"
    /\ script = << Word_x, BREAK, B_open, Font_red, Word_y, BREAK, Word_x >>
    /\ parsed_lines =
          << << [text |-> <<"x">>, font |-> NORMAL_FONT, color |-> -1] >>,
             << [text |-> <<"y">>, font |-> BOLD_FONT, color |-> 255 * 65536] >>,
             << [text |-> <<"x">>, font |-> BOLD_FONT, color |-> 255 * 65536] >> >>

\* The tags that set a colour, the colour each stands for, and the tags that
\* go back to the default colour.
ColourSetting == {Font_red, Font_green_quoted, Curly_blue}
ColourClearing == {Font_close, Curly_reset}
ColourValue(piece) ==
    IF piece = Font_red THEN 255 * 65536
    ELSE IF piece = Font_green_quoted THEN 255 * 256
    ELSE 255

\* The colour that the tags before piece k call for.
ExpectedColour(pieces, k) ==
    LET tags == {t \in 1..(k - 1) : pieces[t] \in ColourSetting \cup ColourClearing}
    IN  IF tags = {} \/ pieces[Max(tags)] \in ColourClearing THEN -1
        ELSE ColourValue(pieces[Max(tags)])

\* The characters of the words of a text with their line and that colour.
ExpectedColours(pieces) ==
    Flatten([k \in DOMAIN pieces |->
        IF pieces[k] \notin Words THEN << >>
        ELSE [h \in DOMAIN pieces[k] |->
                 [ line  |-> LineOf(pieces, k),
                   c     |-> pieces[k][h],
                   color |-> ExpectedColour(pieces, k) ]]])

\* The characters of the runs of the parsed lines with their line and colour.
ParsedColours(parsed) ==
    Flatten([i \in DOMAIN parsed |->
        Flatten([j \in DOMAIN parsed[i] |->
            [h \in DOMAIN parsed[i][j].text |->
                [ line  |-> i - 1,
                  c     |-> parsed[i][j].text[h],
                  color |-> parsed[i][j].color ]]])])

HexDigits == Digits \o <<"a", "b", "c", "d", "e", "f">>
DigitValue(c) == IndexOf(HexDigits, c) - 1
PairValue(p) == (16 * DigitValue(p[1])) + DigitValue(p[2])

\* The three groups of the colour tag that a text of the hex specification
\* starts with, in the order written.
GroupsOf(pieces) ==
    [g \in 1..3 |-> SubSeq(pieces[1], 4 + (2 * g), 5 + (2 * g))]

\* C13: the text "{\c&hBBGGRR&}x" is parsed to the one run x of colour
\* RR*65536 + GG*256 + BB, and hex2int maps the six digits, in the order
\* written and in the reversed order of the groups, to the integer that they
\* are the hexadecimal notation of.
C13_CurlyColourIsReversed ==
    (called = "prepare" /\ script \in HexScripts) =>
        LET g == GroupsOf(script)
        IN  /\ Len(parsed_lines) = 1
            /\ Len(parsed_lines[1]) = 1
            /\ parsed_lines[1][1].text = Word_x
            /\ parsed_lines[1][1].color =
                   (PairValue(g[3]) * 65536) + (PairValue(g[2]) * 256) + PairValue(g[1])
            /\ hex2int(g[1] \o g[2] \o g[3]) =
                   (PairValue(g[1]) * 65536) + (PairValue(g[2]) * 256) + PairValue(g[3])
            /\ hex2int(g[3] \o g[2] \o g[1]) = parsed_lines[1][1].color

\* C13 witness: "{\c&h0000ff&}x" has been parsed to x in 0xff0000.
C13_Witness ==
    /\ called = "prepare"
    /\ script = << CurlyColour(<<"0", "0">>, <<"0", "0">>, <<"f", "f">>), Word_x >>
    /\ parsed_lines =
          << << [text |-> <<"x">>, font |-> NORMAL_FONT, color |-> 255 * 65536] >> >>

\* The tag shape: the place of the character that ends the token of the
\* shape <...> or {\...} starting at character k of a line, 0 if none
\* starts there.
TagEnd(line, k) ==
    IF line[k] = "<"
      THEN LET ends == {e \in (k + 1)..Len(line) : line[e] = ">"}
           IN  IF ends = {} THEN 0 ELSE Min(ends)
    ELSE IF line[k] = "{" /\ k < Len(line) /\ line[k + 1] = "\\"
      THEN LET ends == {e \in (k + 2)..Len(line) : line[e] = "}"}
           IN  IF ends = {} THEN 0 ELSE Min(ends)
    ELSE 0

\* A line from character k on as tokens of the tag shape and single
\* characters of text.
RECURSIVE TokensFrom(_, _)
TokensFrom(line, k) ==
    IF k > Len(line) THEN << >>
    ELSE IF TagEnd(line, k) > 0
      THEN << [tag |-> TRUE, s |-> SubSeq(line, k, TagEnd(line, k))] >>
           \o TokensFrom(line, TagEnd(line, k) + 1)
    ELSE << [tag |-> FALSE, s |-> << line[k] >>] >> \o TokensFrom(line, k + 1)

\* A line with its blanks at both ends and every token of the tag shape
\* removed.
StrippedLine(line) ==
    LET tokens == TokensFrom(trim(line), 1)
    IN  Flatten([t \in DOMAIN tokens |-> IF tokens[t].tag THEN << >> ELSE tokens[t].s])

\* The style tags of the grammar other than the colour tags with a value.
PlainStyleTags ==
    { B_open, B_close, B1_curly, B0_curly, I_open, I_close, I1_curly, I0_curly,
      Font_close, Curly_reset }

\* A token is a style tag as the grammar names them: one of the plain style
\* tags, a tag of the name font, or a curly colour tag.
IsStyleTagAsStated(token) ==
    \/ to_lower(token) \in PlainStyleTags
    \/ /\ HasAt(to_lower(token), 0, <<"<", "f", "o", "n", "t">>)
       /\ token[6] \in {" ", "\t", ">"}
    \/ HasAt(to_lower(token), 0, <<"{", "\\", "c", "&", "h">>)

\* A token is a style tag in the wider sense: as above, or any tag whose
\* text starts with <font.
IsStyleTagByPrefix(token) ==
    \/ to_lower(token) \in PlainStyleTags
    \/ HasAt(to_lower(token), 0, <<"<", "f", "o", "n", "t">>)
    \/ HasAt(to_lower(token), 0, <<"{", "\\", "c", "&", "h">>)

\* The characters of the text tokens from token t on of line i with the face
\* and colour in force, when only style tags (in the wider sense if
\* by_prefix) change the style; and the style after the line.
RECURSIVE StyledTokens(_, _, _, _, _, _)
StyledTokens(tokens, t, st, i, by_prefix, chars) ==
    IF t > Len(tokens) THEN [st |-> st, chars |-> chars]
    ELSE IF tokens[t].tag
      THEN StyledTokens(tokens, t + 1,
                        IF (by_prefix /\ IsStyleTagByPrefix(tokens[t].s))
                           \/ (~by_prefix /\ IsStyleTagAsStated(tokens[t].s))
                          THEN ApplyTag(st, to_lower(tokens[t].s))
                        ELSE st,
                        i, by_prefix, chars)
    ELSE StyledTokens(tokens, t + 1, st, i, by_prefix,
                      Append(chars, [ line  |-> i,
                                      c     |-> tokens[t].s[1],
                                      font  |-> RunFont(st),
                                      color |-> st.color ]))

RECURSIVE ExpectedStyled(_, _, _, _)
ExpectedStyled(lines, i, st, by_prefix) ==
    IF i >= Len(lines) THEN << >>
    ELSE LET r == StyledTokens(TokensFrom(trim(lines[i + 1]), 1), 1, st, i, by_prefix,
                               << >>)
         IN  r.chars \o ExpectedStyled(lines, i + 1, r.st, by_prefix)

\* The characters of the runs of the parsed lines with line, face and colour.
ParsedStyled(parsed) ==
    Flatten([i \in DOMAIN parsed |->
        Flatten([j \in DOMAIN parsed[i] |->
            [h \in DOMAIN parsed[i][j].text |->
                [ line  |-> i - 1,
                  c     |-> parsed[i][j].text[h],
                  font  |-> parsed[i][j].font,
                  color |-> parsed[i][j].color ]]])])

\* The texts of the runs of every line, joined, are the stripped line, and
\* no run is empty.
RunsAreTheStrippedText ==
    /\ Len(parsed_lines) = Len(Lines(script))
    /\ \A i \in DOMAIN parsed_lines :
          /\ Flatten([j \in DOMAIN parsed_lines[i] |-> parsed_lines[i][j].text])
                = StrippedLine(Lines(script)[i])
          /\ \A j \in DOMAIN parsed_lines[i] : parsed_lines[i][j].text # << >>

ExpectedFlags(pieces) ==
    Flatten([k \in DOMAIN pieces |->
        IF pieces[k] \notin Words THEN << >>
        ELSE [h \in DOMAIN pieces[k] |->
                 [ bold   |-> LastIsOpening(pieces, k, BoldOpening, BoldClosing),
                   italic |-> LastIsOpening(pieces, k, ItalicOpening, ItalicClosing) ]]])

\* For every character of the runs of the parsed lines, the face of its run.
ParsedFaces(parsed) ==
    Flatten([i \in DOMAIN parsed |->
        Flatten([j \in DOMAIN parsed[i] |->
            [h \in DOMAIN parsed[i][j].text |-> parsed[i][j].font]])])

\* C15: every run has one of the three faces: the italic face exactly when
\* italic is set where its text is, with bold set or not, the bold face
\* exactly when bold is set and italic is not, the normal face exactly when
\* neither is set.
C15_ItalicBeforeBold ==
    (called = "prepare" /\ ~sub.isImage) =>
        LET faces == ParsedFaces(parsed_lines)
            flags == ExpectedFlags(script)
        IN  /\ Len(faces) = Len(flags)
            /\ \A n \in DOMAIN faces :
                  /\ faces[n] \in {NORMAL_FONT, BOLD_FONT, ITALIC_FONT}
                  /\ faces[n] = ITALIC_FONT <=> flags[n].italic
                  /\ faces[n] = BOLD_FONT <=> (flags[n].bold /\ ~flags[n].italic)
                  /\ faces[n] = NORMAL_FONT <=> (~flags[n].bold /\ ~flags[n].italic)

\* C15 witness: "{\b1}{\i1}x{\i0}y{\b0}x" has been parsed to x Italic (bold
\* and italic set), y Bold and x Normal.
C15_Witness ==
    /\ called = "prepare"
    /\ script = << B1_curly, I1_curly, Word_x, I0_curly, Word_y, B0_curly, Word_x >>
    /\ ParsedFaces(parsed_lines) = << ITALIC_FONT, BOLD_FONT, NORMAL_FONT >>

\* The number of lines that are kept of the parsed lines, and the runs
\* <<line, part>> whose glyphs are in a path painted on the surface.
KeptLines == IF Len(parsed_lines) > m_max_lines THEN m_max_lines ELSE Len(parsed_lines)
DrawnRuns ==
    UNION { { << m_surface.ops[k].path[e].line, m_surface.ops[k].path[e].part >> :
                e \in GlyphRuns(k) } : k \in DOMAIN m_surface.ops }
Strokes == {k \in DOMAIN m_surface.ops : m_surface.ops[k].op = "stroke 2"}

\* C16: no run of a line after the first max_lines lines is ever drawn; in
\* a prepared text frame exactly the runs of the first
\* min(number of lines, max_lines) lines are drawn, with one stroke per such
\* line; and a prepare that ends in a prepared text frame leaves no glyphs
\* that were measured and not drawn.
C16_FirstLinesOnly ==
    /\ [](/\ \A r \in DrawnRuns : r[1] >= 0 /\ r[1] < KeptLines
          /\ m_prepared_from_text =>
                /\ DrawnRuns =
                      UNION { { << i, j >> : j \in 0..(Len(parsed_lines[i + 1]) - 1) } :
                                i \in 0..(KeptLines - 1) }
                /\ Cardinality(Strokes) = KeptLines)
    /\ [][(called' = "prepare" /\ m_prepared_from_text') =>
            glyph_arrays' = glyph_arrays]_vars

\* C16 witness: of four lines prepared with max_lines = 2, lines 0 and 1 are
\* drawn.
C16_Witness ==
    /\ m_prepared_from_text
    /\ m_max_lines = 2
    /\ Len(parsed_lines) = 4
    /\ \A i \in 1..4 : parsed_lines[i] # << >>
    /\ {r[1] : r \in DrawnRuns} = {0, 1}

\* The height that the lines of the image need: max_lines*line_height + 5
\* with line_height = font_size + font_size/4.
NeededHeight == (m_max_lines * (m_font_size + Div(m_font_size, 4))) + 5

\* C17: for a screen wider and higher than 200 and 1 to 4 lines the
\* constructor leaves image_width the greatest multiple of 16 that is at
\* most screen_width - 100 and image_height the least multiple of 16 that
\* is at least max_lines*line_height + 5.
C17_ImageSizeRounded ==
    (display.screen_width > 200 /\ display.screen_height > 200 /\ m_max_lines \in 1..4) =>
        /\ m_padding = Div(m_font_size, 4)
        /\ m_image_width % 16 = 0
        /\ m_image_height % 16 = 0
        /\ display.screen_width - 115 <= m_image_width
        /\ m_image_width <= display.screen_width - 100
        /\ NeededHeight <= m_image_height
        /\ m_image_height <= NeededHeight + 15

\* C17 witness: a screen whose width less 100 and whose needed height are
\* both no multiples of 16 has been rounded, the width by 15 pixels.
C17_Witness ==
    /\ display.screen_width > 200
    /\ display.screen_height > 200
    /\ m_max_lines = 4
    /\ m_image_width = display.screen_width - 115
    /\ m_image_height > NeededHeight

\* C18: every prepare of a text, also one during which the text backend
\* reports a failure, ends with the surface it created held as the prepared
\* text frame, so that no surface is live that the next show_next, prepare
\* or destruction does not release.
C18_FailedLayoutIsHeld ==
    /\ (called = "prepare" /\ ~sub.isImage) =>
          /\ m_prepared_from_text
          /\ cairo_image_data = m_surface.addr
    /\ cairo_live \subseteq HeldSurface

\* C19: the two layers are never both visible and after hide neither is;
\* a show_next of a bitmap frame leaves the text layer hidden and the bitmap
\* layer visible with the buffer that was prepared, a show_next of a text
\* frame the bitmap layer hidden and the text layer visible with what was
\* painted; hide changes neither the prepared flags nor the frame nor the
\* heap, so that the frame is there for the next show_next.
C19_OneLayerVisible ==
    /\ [](/\ ~(subtitleLayer.visible /\ dvdSubLayer.visible)
          /\ called = "hide" => (~subtitleLayer.visible /\ ~dvdSubLayer.visible))
    /\ [][/\ (called' = "show_next" /\ m_prepared_from_image) =>
               /\ ~subtitleLayer'.visible
               /\ dvdSubLayer'.visible
               /\ calls'[Len(calls')] = ImageCall("dvdSubLayer", other_image_data.bytes)
          /\ (called' = "show_next" /\ m_prepared_from_text) =>
               /\ ~dvdSubLayer'.visible
               /\ subtitleLayer'.visible
               /\ calls'[Len(calls')] = ImageCall("subtitleLayer", m_surface.ops)
          /\ called' = "hide" =>
               /\ UNCHANGED frame_vars
               /\ UNCHANGED << malloc_live, cairo_live, glyph_arrays, heap_error >>
               /\ heap_calls' = << >>]_vars

\* C19 witness: a text frame has been shown on the text layer, after a hide
\* or a bitmap frame left the bitmap layer hidden.
C19_Witness ==
    /\ called = "show_next"
    /\ Len(calls) = 2
    /\ calls[1] = HideCall("dvdSubLayer")
    /\ calls[2].layer = "subtitleLayer"
    /\ calls[2].data # << >>
    /\ subtitleLayer.visible
    /\ ~dvdSubLayer.visible

\* The vertical cursor stated for line i of the kept lines.
StatedCursor(i) ==
    m_image_height - m_padding - ((KeptLines - 1 - i) * (m_font_size + m_padding))

\* The paints of a ghost box, in the order painted.
Boxes ==
    {k \in DOMAIN m_surface.ops :
        /\ m_surface.ops[k].path # << >>
        /\ m_surface.ops[k].path[1].kind = "rectangle"}

\* C20: every glyph of a run of line i is placed from the vertical cursor
\* image_height - padding - (N-1-i)*line_height (at cursor - padding/4), and
\* the ghost boxes, painted from the last kept line upwards, span the bands
\* from cursor - font_size to cursor + padding; the last kept line has the
\* cursor image_height - padding, the band of a line ends where or before
\* the band of the next line begins, and every band is within the rows
\* 0 .. image_height.
C20_LinesStackedFromBottom ==
    /\ \A k \in DOMAIN m_surface.ops : \A e \in GlyphRuns(k) :
          \A h \in DOMAIN m_surface.ops[k].path[e].glyphs :
              m_surface.ops[k].path[e].glyphs[h].y =
                  StatedCursor(m_surface.ops[k].path[e].line) - Div(m_padding, 4)
    /\ \A k \in Boxes :
          LET i == KeptLines - Cardinality({b \in Boxes : b <= k})
          IN  /\ i >= 0
              /\ m_surface.ops[k].path[1].y = StatedCursor(i) - m_font_size
              /\ m_surface.ops[k].path[1].height = m_font_size + m_padding
    /\ KeptLines > 0 => StatedCursor(KeptLines - 1) = m_image_height - m_padding
    /\ \A i \in 0..(KeptLines - 1) :
          /\ StatedCursor(i) - m_font_size >= 0
          /\ StatedCursor(i) + m_padding <= m_image_height
          /\ \A j \in (i + 1)..(KeptLines - 1) :
                StatedCursor(i) + m_padding <= StatedCursor(j) - m_font_size

\* C20 witness: two lines have been drawn where three are allowed, the
\* second from the cursor image_height - padding and the first one line
\* height above it.
C20_Witness ==
    /\ m_prepared_from_text
    /\ m_max_lines = 3
    /\ KeptLines = 2
    /\ {r[1] : r \in DrawnRuns} = {0, 1}
    /\ \E k \in DOMAIN m_surface.ops : \E e \in GlyphRuns(k) :
          /\ m_surface.ops[k].path[e].line = 0
          /\ m_surface.ops[k].path[e].glyphs[1].y =
                m_image_height - m_padding - (m_font_size + m_padding)
                - Div(m_padding, 4)


====
